---------------------------- MODULE Spec2Model ----------------------------
(***************************************************************************)
(* A model of py_moex.py: the MOEX ISS client.  One behaviour is one call  *)
(* of one of the module's functions: get_security_info, get_candles,       *)
(* get_last_history_candle, get_last_candle or get_last_price.  The HTTP   *)
(* service is the environment: every requests.get is answered by a         *)
(* transport failure, a body that is not JSON, a JSON body of another      *)
(* shape, or the venue's data for the query.                               *)
(*                                                                         *)
(* Python values are records [t |-> <type name>, ...]; a datetime is the   *)
(* record of its fields, its calendar date abstracted to a day number; a   *)
(* list or tuple is a sequence, read with Python's 0-based index by At.    *)
(***************************************************************************)
EXTENDS Integers, Sequences, FiniteSets, TLC

VARIABLES
    op,             \* the function of py_moex.py the caller invoked
    ticker,         \* argument ticker
    start_date,     \* argument start_date (get_candles), start_time (get_last_candle)
    end_date,       \* argument end_date (get_candles), end_time (get_last_candle)
    interval,       \* argument interval
    now,            \* what datetime.now() returns during get_last_price
    venue,          \* the bars the exchange holds (state of the remote service)
    history,        \* the rows the history endpoint returns (remote service)
    pc,             \* position of the call
    frame,          \* the function whose body is executing
    ticker_info,    \* local ticker_info of the executing function
    current_start,  \* get_candles: local current_start
    hour,           \* get_candles: the for loop's next value of hour
    all_data,       \* get_candles: local all_data
    result,         \* the value returned, or the exception raised
    http,           \* every requests.get issued so far, with its answer
    bad_left        \* how many more requests the environment may fail

vars == << op, ticker, start_date, end_date, interval, now, venue, history,
           pc, frame, ticker_info, current_start, hour, all_data, result,
           http, bad_left >>

---------------------------------------------------------------------------
(* Bounds of the model *)

\* The last day number an argument datetime may lie on (days are 0..MaxDay).
MaxDay == 1

\* How many requests of one call the environment may answer with a failure
\* or a malformed body.
MaxBad == 1

---------------------------------------------------------------------------
(* Python values *)

None == [t |-> "NoneType"]

Str(s) == [t |-> "str", v |-> s]

PyInt(n) == [t |-> "int", v |-> n]

\* isinstance(x, str)
IsStr(x) == x.t = "str"

\* bool(x) for the values the code tests: None, strings, dicts, lists
Truthy(x) ==
    CASE x.t = "NoneType" -> FALSE
      [] x.t = "str" -> x.v # ""
      [] x.t = "list" -> x.v # << >>
      [] OTHER -> TRUE

\* seq[i] with Python's 0-based index
At(seq, i) == seq[i + 1]

Raise(type, line) == [t |-> "exception", type |-> type, line |-> line]

IsException(x) == x.t = "exception"

---------------------------------------------------------------------------
(* datetime and timedelta *)

DateTime(d, h, m, s, us) ==
    [t |-> "datetime", day |-> d, hour |-> h, minute |-> m, second |-> s,
     microsecond |-> us]

\* whole seconds since day 0, 00:00:00
Seconds(dt) == dt.day * 86400 + dt.hour * 3600 + dt.minute * 60 + dt.second

\* a <= b, a > b on datetimes
DtLe(a, b) ==
    \/ Seconds(a) < Seconds(b)
    \/ Seconds(a) = Seconds(b) /\ a.microsecond <= b.microsecond

DtGt(a, b) == ~DtLe(a, b)

\* dt + timedelta(seconds=n), n of either sign
PlusSeconds(dt, n) ==
    LET total == Seconds(dt) + n
        rest == total % 86400
    IN  DateTime(total \div 86400, rest \div 3600, (rest % 3600) \div 60,
                 rest % 60, dt.microsecond)

\* dt.replace(hour=h, minute=0, second=0): the microsecond stays
ReplaceHour(dt, h) == [dt EXCEPT !.hour = h, !.minute = 0, !.second = 0]

\* dt.strftime("%Y-%m-%d %H:%M:%S"): the microsecond is dropped
Strftime(dt) == << dt.day, dt.hour, dt.minute, dt.second >>

\* dt.strftime("%y%m%d")
StrftimeDate(dt) == << dt.day >>

---------------------------------------------------------------------------
(* get_security_info *)

\* What the metadata endpoint may answer.  A JSON body is the record of its
\* sections; description is a list of [field, type, value] triples.
MetaOk ==
    [status |-> "ok", json |-> TRUE,
     sections |-> {"description", "boards"},
     description |-> << << "SECID", "string", Str("LKOH") >>,
                        << "SHORTNAME", "string", Str("LUKOIL") >>,
                        << "GROUP", "string", Str("stock_shares") >> >>,
     boards |-> << << "LKOH", "TQBR", "T+", 1, 1, "shares", 1, "stock" >> >>]

MetaResponses ==
    { MetaOk,
      [MetaOk EXCEPT !.status = "fail"],
      [MetaOk EXCEPT !.json = FALSE],
      [MetaOk EXCEPT !.sections = {"description"}],
      [MetaOk EXCEPT !.description = << << "SECID", "string", Str("LKOH") >>,
                                        << "SHORTNAME", "string", Str("") >> >>],
      [MetaOk EXCEPT !.boards = << >>],
      [MetaOk EXCEPT !.boards = << << "LKOH", "TQBR", "T+" >> >>] }

\* {item[0]: item[2] for item in data}.get(key)
DescriptionGet(description, key) ==
    LET hits == { i \in 1..Len(description) : At(description[i], 0) = key }
    IN  IF hits = {} THEN None
        ELSE At(description[CHOOSE i \in hits : \A j \in hits : j <= i], 2)

MetaRequest(tk) == [ep |-> "securities", ticker |-> tk]

\* The body of get_security_info after the isinstance check, given the
\* answer to its one request.
ParseSecurityInfo(tk, resp) ==
    IF resp.status # "ok" THEN Raise("RuntimeError", 33)
    ELSE IF ~resp.json THEN Raise("ValueError", 39)
    ELSE IF ~({"description", "boards"} \subseteq resp.sections)
         THEN Raise("ValueError", 43)
    ELSE LET secid == DescriptionGet(resp.description, "SECID")
             shortname == DescriptionGet(resp.description, "SHORTNAME")
             group == DescriptionGet(resp.description, "GROUP")
         IN  IF ~(Truthy(secid) /\ Truthy(shortname) /\ Truthy(group))
                 THEN Raise("ValueError", 52)
             ELSE IF resp.boards = << >> \/ Len(resp.boards[1]) < 8
                 THEN Raise("ValueError", 57)
             ELSE [t |-> "dict", secid |-> secid, shortname |-> shortname,
                   group |-> group,
                   market |-> At(resp.boards[1], 5),
                   engine |-> At(resp.boards[1], 7)]

\* Mutant of TickerAccepted: the isinstance check is missing.
TickerAcceptedAlways(tk) == TRUE

\* The isinstance check of get_security_info: TRUE when the call goes on to
\* issue its request.
TickerAccepted(tk) == IsStr(tk)

---------------------------------------------------------------------------
(* Python str values the code takes apart: the sequence of their characters *)

Chars(cs) == [t |-> "str", chars |-> cs]

Digit == << "0", "1", "2", "3", "4", "5", "6", "7", "8", "9" >>

TwoDigits(n) == << Digit[(n \div 10) + 1], Digit[(n % 10) + 1] >>

\* s.split(): the maximal runs of non-blank characters
RECURSIVE SplitFrom(_, _, _)
SplitFrom(cs, i, cur) ==
    IF i > Len(cs) THEN (IF cur = << >> THEN << >> ELSE << cur >>)
    ELSE IF cs[i] = " "
         THEN (IF cur = << >> THEN << >> ELSE << cur >>) \o SplitFrom(cs, i + 1, << >>)
         ELSE SplitFrom(cs, i + 1, Append(cur, cs[i]))

Split(cs) == SplitFrom(cs, 1, << >>)

\* s.replace(":", "")
DropColons(cs) == SelectSeq(cs, LAMBDA c : c # ":")

---------------------------------------------------------------------------
(* The candles endpoint: the environment of get_candles and get_last_candle *)

\* The text "<date> HH:MM:SS" the service puts in a bar's begin and end.
BeginText(d, h, m, s) ==
    Chars(<< "D", Digit[d + 1], " " >> \o TwoDigits(h) \o << ":" >>
          \o TwoDigits(m) \o << ":" >> \o TwoDigits(s))

\* A bar as the service sends it:
\* [open, close, high, low, value, volume, begin, end]
Bar(o, c, hi, lo, val, vol, d, h, m) ==
    [at |-> << d, h, m, 0 >>,
     candle |-> << o, c, hi, lo, val, vol, BeginText(d, h, m, 0),
                   BeginText(d, h, m, 59) >>]

\* The bars the exchange may hold, in the order the service lists them.
VenueTrading ==
    << Bar(6962, 6963, 6965, 6961, 487339, 70, 0, 10, 5),
       Bar(6963, 6960, 6964, 6959, 278400, 40, 0, 10, 3),
       Bar(7011, 7235, 7260, 7003, 556064, 77, 0, 23, 59),
       Bar(7240, 0, 7241, 0, 72400, 10, 1, 12, 0),
       Bar(7100, 7105, 7110, 7099, 71050, 10, 1, 12, 7) >>

\* The same exchange sending bars the client cannot read: one with six
\* fields, one whose begin is null, one whose begin has no time part.
VenueMalformed ==
    << Bar(6962, 6963, 6965, 6961, 487339, 70, 0, 10, 5),
       [at |-> << 0, 11, 0, 0 >>,
        candle |-> << 6962, 6963, 6965, 6961, 487339, 70 >>],
       [at |-> << 0, 23, 0, 0 >>,
        candle |-> << 1, 2, 3, 4, 5, 6, None, None >>],
       [at |-> << 1, 10, 0, 0 >>,
        candle |-> << 1, 2, 3, 4, 5, 6, Chars(<< "D", "1" >>), Chars(<< "D", "1" >>) >>] >>

Venues == { VenueTrading, VenueMalformed }

StampSeconds(st) == st[1] * 86400 + st[2] * 3600 + st[3] * 60 + st[4]

\* candles.data of the answer to a query from..till
RECURSIVE ServerData(_, _, _)
ServerData(v, from, till) ==
    IF v = << >> THEN << >>
    ELSE LET rest == ServerData(Tail(v), from, till)
         IN  IF /\ StampSeconds(from) <= StampSeconds(Head(v).at)
                /\ StampSeconds(Head(v).at) <= StampSeconds(till)
             THEN << Head(v).candle >> \o rest
             ELSE rest

\* An answer of the service to one GET of a data endpoint.
\*   status: "ok", or "fail" for what raise_for_status or the transport raises
\*   json: the body parses; decode_error: the class response.json() raises
\*         when it does not (requests.JSONDecodeError since requests 2.27)
\*   dict: the body is an object with the section asked for, not an array
Answer(data) ==
    [status |-> "ok", json |-> TRUE, decode_error |-> "none", dict |-> TRUE,
     data |-> data]

BadAnswers(data) ==
    { [Answer(data) EXCEPT !.status = "fail"],
      [Answer(data) EXCEPT !.json = FALSE, !.decode_error = "requests"],
      [Answer(data) EXCEPT !.json = FALSE, !.decode_error = "json"],
      [Answer(data) EXCEPT !.dict = FALSE] }

Answers(data, budget) ==
    { Answer(data) } \cup (IF budget > 0 THEN BadAnswers(data) ELSE {})

\* What the try block gets from requests.get, raise_for_status and
\* response.json().get(section, {}).get("data", []): the data, or the
\* exception raised.
ResponseData(resp, line) ==
    IF resp.status # "ok" THEN Raise("RequestException", line - 1)
    ELSE IF ~resp.json
         THEN (IF resp.decode_error = "requests"
               THEN Raise("RequestException", line)
               ELSE Raise("ValueError", line))
    ELSE IF ~resp.dict THEN Raise("AttributeError", line)
    ELSE [t |-> "list", v |-> resp.data]

\* except requests.exceptions.RequestException
IsRequestException(e) == IsException(e) /\ e.type = "RequestException"

---------------------------------------------------------------------------
(* get_candles *)

FirstHour == 10

LastHour == 24

\* Mutant of EndTime: the second is not taken off the hour.
EndTimeWholeHour(st) == PlusSeconds(st, 3600)

\* start_time and end_time of the loop body for (current_start, hour)
StartTime(cs, h) == ReplaceHour(cs, h)

EndTime(st) == PlusSeconds(PlusSeconds(st, 3600), -1)

CandleRequest(info, tk, st, et, iv) ==
    [ep |-> "candles", engine |-> info.engine, market |-> info.market,
     ticker |-> tk, from |-> Strftime(st), till |-> Strftime(et),
     interval |-> iv]

\* The row appended for one candle, or the exception its fields raise.
CandleRow(tk, iv, st, candle) ==
    IF Len(candle) < 7 THEN Raise("IndexError", 130)
    ELSE IF ~IsStr(At(candle, 6)) THEN Raise("AttributeError", 130)
    ELSE LET parts == Split(At(candle, 6).chars)
         IN  IF Len(parts) < 2 THEN Raise("IndexError", 130)
             ELSE [t |-> "list",
                   v |-> << tk, iv, StrftimeDate(st),
                            Chars(DropColons(At(parts, 1))),
                            At(candle, 0), At(candle, 2), At(candle, 3),
                            At(candle, 1), At(candle, 5) >>]

\* for candle in data: all_data.append(...), stopping at an exception
RECURSIVE AppendCandles(_, _, _, _, _)
AppendCandles(all, tk, iv, st, data) ==
    IF data = << >> THEN [all_data |-> all, exc |-> None]
    ELSE LET row == CandleRow(tk, iv, st, Head(data))
         IN  IF IsException(row) THEN [all_data |-> all, exc |-> row]
             ELSE AppendCandles(Append(all, row.v), tk, iv, st, Tail(data))

\* Mutant of FetchWindow: a failed request empties the rows collected.
FetchWindowDropsRows(all, tk, iv, st, resp) ==
    LET data == ResponseData(resp, 123)
    IN  IF IsRequestException(data) THEN [all_data |-> << >>, exc |-> None]
        ELSE IF IsException(data) THEN [all_data |-> all, exc |-> data]
        ELSE AppendCandles(all, tk, iv, st, data.v)

\* The try statement of the loop body: all_data after it, and the exception
\* that leaves it (None when it completes or the except clause handles it).
FetchWindow(all, tk, iv, st, resp) ==
    LET data == ResponseData(resp, 123)
    IN  IF IsRequestException(data) THEN [all_data |-> all, exc |-> None]
        ELSE IF IsException(data) THEN [all_data |-> all, exc |-> data]
        ELSE LET done == AppendCandles(all, tk, iv, st, data.v)
             IN  IF IsRequestException(done.exc)
                 THEN [all_data |-> done.all_data, exc |-> None]
                 ELSE done

\* Mutant of BreakGuard: the loop body has no break.
BreakGuardNever(st, ed) == FALSE

\* Mutant of NextHour: a window whose request failed is tried again.
NextHourRetry(h, resp) == IF resp.status # "ok" THEN h ELSE h + 1

\* while current_start <= end_date
LoopGuard(cs, ed) == DtLe(cs, ed)

\* if start_time > end_date: break
BreakGuard(st, ed) == DtGt(st, ed)

\* The value of hour after one pass of the loop body
NextHour(h, resp) == h + 1

\* pd.DataFrame(all_data, columns=[...])
DataFrame(rows) ==
    [t |-> "DataFrame",
     columns |-> << "<TICKER>", "<PER>", "<DATE>", "<TIME>", "<OPEN>",
                    "<HIGH>", "<LOW>", "<CLOSE>", "<VOL>" >>,
     rows |-> rows]

\* The windows the loops of get_candles pass through when no exception
\* leaves them: the list of [start_time, end_time].
RECURSIVE HourLoop(_, _, _)
HourLoop(cs, h, ed) ==
    IF h >= LastHour \/ BreakGuard(StartTime(cs, h), ed) THEN << >>
    ELSE << [start_time |-> StartTime(cs, h),
             end_time |-> EndTime(StartTime(cs, h))] >>
         \o HourLoop(cs, h + 1, ed)

RECURSIVE DayLoop(_, _)
DayLoop(cs, ed) ==
    IF ~LoopGuard(cs, ed) THEN << >>
    ELSE HourLoop(cs, FirstHour, ed) \o DayLoop(PlusSeconds(cs, 86400), ed)

---------------------------------------------------------------------------
(* get_last_history_candle, get_last_candle, get_last_price *)

\* float(x) of a number
Float(x) == [t |-> "float", v |-> x]

HistoryRequest(info, tk) ==
    [ep |-> "history", engine |-> info.engine, market |-> info.market,
     ticker |-> tk, sort_order |-> "desc", limit |-> 1]

\* The rows the history endpoint may send: none, or the row of the source's
\* comment (amounts scaled down).
HistoryRow ==
    << "TQBR", "2024-12-30", "LUKOIL", "LKOH", 53942, 55606, 7011, 7003, 7260,
       7240, 7176, 7235, 774886, 7170, 7170, None, 48766, 48766, None, 0, 3,
       "SUR", 3 >>

Histories == { << >>, << HistoryRow >>, << << "TQBR", "2024-12-30" >> >> }

\* The try statement of get_last_history_candle: what it returns or raises.
LastHistoryCandle(resp) ==
    LET data == ResponseData(resp, 223)
    IN  IF IsRequestException(data) THEN None
        ELSE IF IsException(data) THEN data
        ELSE IF ~Truthy(data) THEN None
        ELSE LET row == At(data.v, 0)
             IN  IF Len(row) < 13 THEN Raise("IndexError", 230)
                 ELSE [t |-> "dict",
                       open |-> Float(At(row, 6)),
                       close |-> Float(At(row, 11)),
                       high |-> Float(At(row, 8)),
                       low |-> Float(At(row, 7)),
                       value |-> Float(At(row, 5)),
                       volume |-> Float(At(row, 12))]

\* Mutant of LastCandle: the except clause raises the exception again.
LastCandleRaises(resp) ==
    LET data == ResponseData(resp, 292)
    IN  IF IsException(data) THEN data
        ELSE IF ~Truthy(data) THEN None
        ELSE LET last_candle == data.v[Len(data.v)]
             IN  [t |-> "dict",
                  open |-> Float(At(last_candle, 0)),
                  close |-> Float(At(last_candle, 1)),
                  high |-> Float(At(last_candle, 2)),
                  low |-> Float(At(last_candle, 3)),
                  value |-> Float(At(last_candle, 4)),
                  volume |-> Float(At(last_candle, 5))]

\* The try statement of get_last_candle: what it returns or raises.
LastCandle(resp) ==
    LET data == ResponseData(resp, 292)
    IN  IF IsRequestException(data) THEN None
        ELSE IF IsException(data) THEN data
        ELSE IF ~Truthy(data) THEN None
        ELSE LET last_candle == data.v[Len(data.v)]
             IN  IF Len(last_candle) < 6 THEN Raise("IndexError", 302)
                 ELSE [t |-> "dict",
                       open |-> Float(At(last_candle, 0)),
                       close |-> Float(At(last_candle, 1)),
                       high |-> Float(At(last_candle, 2)),
                       low |-> Float(At(last_candle, 3)),
                       value |-> Float(At(last_candle, 4)),
                       volume |-> Float(At(last_candle, 5))]

\* Mutant of HasCandle: a bar whose close is 0 counts as no bar.
HasCandleWithClose(last_candle) == Truthy(last_candle) /\ last_candle.close.v # 0

\* if last_candle: in get_last_price
HasCandle(last_candle) == Truthy(last_candle)

\* The lookback of get_last_price in seconds: timedelta(minutes=15)
Lookback == 15 * 60

---------------------------------------------------------------------------
(* The calls *)

Ops == { "get_security_info", "get_candles", "get_last_history_candle",
         "get_last_candle", "get_last_price" }

Tickers == { Str("LKOH"), Str(""), PyInt(42), None }

\* hour, minute, second, microsecond of the argument datetimes
TimesOfDay == { << 0, 0, 0, 0 >>, << 12, 0, 0, 500000 >>, << 23, 59, 59, 0 >> }

DateTimes ==
    { DateTime(d, tod[1], tod[2], tod[3], tod[4]) :
        d \in 0..MaxDay, tod \in TimesOfDay }

\* The code treats every day alike, so the first argument lies on day 0.
StartTimes == { dt \in DateTimes : dt.day = 0 }

Init ==
    /\ op \in Ops
    /\ ticker \in Tickers
    \* get_candles only passes the string on: one string stands for all
    /\ op = "get_candles" => ticker # Str("")
    /\ IF op \in {"get_candles", "get_last_candle"}
       THEN start_date \in StartTimes /\ end_date \in DateTimes
       ELSE start_date = None /\ end_date = None
    /\ interval = IF op \in {"get_candles", "get_last_candle"} THEN 1 ELSE 0
    /\ IF op = "get_last_price" THEN now \in DateTimes ELSE now = None
    /\ IF op \in {"get_candles", "get_last_candle", "get_last_price"}
       THEN venue \in Venues ELSE venue = << >>
    /\ IF op \in {"get_last_history_candle", "get_last_price"}
       THEN history \in Histories ELSE history = << >>
    /\ pc = "call"
    /\ frame = op
    /\ ticker_info = None
    /\ current_start = None
    /\ hour = 0
    /\ all_data = << >>
    /\ result = None
    /\ http = << >>
    /\ bad_left = MaxBad

\* One requests.get as the log keeps it: the request; what the caller got
\* from it, "ok" with the data, "failed" for a RequestException, "error"
\* for any other exception; and for get_candles the loop's start_time and
\* end_time.
Exchange(req, got, at) ==
    [req |-> req,
     outcome |-> IF IsRequestException(got) THEN "failed"
                 ELSE IF IsException(got) THEN "error" ELSE "ok",
     data |-> IF IsException(got) THEN << >> ELSE got.v,
     at |-> at]

\* get_security_info(ticker), from its isinstance check to its return, given
\* the answer to its request: the requests it issued and what it returned
\* or raised.
get_security_info(tk, resp) ==
    IF ~TickerAccepted(tk)
    THEN [http |-> << >>, value |-> Raise("ValueError", 23)]
    ELSE [http |-> << Exchange(MetaRequest(tk),
                               IF resp.status = "ok"
                               THEN [t |-> "list", v |-> << >>]
                               ELSE Raise("RequestException", 31),
                               None) >>,
          value |-> ParseSecurityInfo(tk, resp)]

\* get_security_info called by the user
GetSecurityInfo ==
    /\ pc = "call"
    /\ op = "get_security_info"
    /\ \E resp \in MetaResponses :
         LET r == get_security_info(ticker, resp)
         IN  /\ http' = http \o r.http
             /\ result' = r.value
             /\ pc' = IF IsException(r.value) THEN "raised" ELSE "done"
    /\ UNCHANGED << op, ticker, start_date, end_date, interval, now, venue,
                    history, frame, ticker_info, current_start, hour,
                    all_data, bad_left >>

\* The isinstance checks that open get_candles, get_last_history_candle,
\* get_last_candle and get_last_price; get_last_price goes on to call
\* get_last_candle(ticker, now - 15 min, now, 1).
Enter ==
    /\ pc = "call"
    /\ op # "get_security_info"
    /\ IF ~IsStr(ticker)
       THEN /\ pc' = "raised"
            /\ result' = Raise("TypeError",
                               CASE op = "get_candles" -> 86
                                 [] op = "get_last_history_candle" -> 184
                                 [] op = "get_last_candle" -> 268
                                 [] OTHER -> 329)
            /\ UNCHANGED << frame, start_date, end_date, interval >>
       ELSE /\ pc' = "resolve"
            /\ result' = result
            /\ IF op = "get_last_price"
               THEN /\ frame' = "get_last_candle"
                    /\ start_date' = PlusSeconds(now, -Lookback)
                    /\ end_date' = now
                    /\ interval' = 1
               ELSE UNCHANGED << frame, start_date, end_date, interval >>
    /\ UNCHANGED << op, ticker, now, venue, history, ticker_info,
                    current_start, hour, all_data, http, bad_left >>

\* ticker_info = get_security_info(ticker) in the executing function, and
\* what follows it up to the first request or loop test.
Resolve ==
    /\ pc = "resolve"
    /\ \E resp \in MetaResponses :
         LET r == get_security_info(ticker, resp)
         IN  /\ http' = http \o r.http
             /\ IF IsException(r.value)
                THEN /\ pc' = "raised"
                     /\ result' = r.value
                     /\ UNCHANGED << ticker_info, current_start, hour, all_data >>
                ELSE /\ ticker_info' = r.value
                     /\ result' = result
                     /\ IF frame = "get_candles"
                        THEN /\ pc' = "loop"
                             /\ current_start' = start_date
                             /\ hour' = FirstHour
                             /\ all_data' = << >>
                        ELSE /\ pc' = "request"
                             /\ UNCHANGED << current_start, hour, all_data >>
    /\ UNCHANGED << op, ticker, start_date, end_date, interval, now, venue,
                    history, frame, bad_left >>

\* One pass of the for loop's body that reaches requests.get.
Window ==
    /\ pc = "loop"
    /\ LoopGuard(current_start, end_date)
    /\ hour < LastHour
    /\ LET start_time == StartTime(current_start, hour)
           end_time == EndTime(start_time)
           req == CandleRequest(ticker_info, ticker, start_time, end_time, interval)
       IN  /\ ~BreakGuard(start_time, end_date)
           /\ \E resp \in Answers(ServerData(venue, req.from, req.till), bad_left) :
                LET f == FetchWindow(all_data, ticker, interval, start_time, resp)
                IN  /\ http' = Append(http, Exchange(req, ResponseData(resp, 123),
                                  [start_time |-> start_time, end_time |-> end_time]))
                    /\ bad_left' = IF resp \in BadAnswers(resp.data)
                                   THEN bad_left - 1 ELSE bad_left
                    /\ all_data' = f.all_data
                    /\ hour' = NextHour(hour, resp)
                    /\ IF f.exc = None
                       THEN pc' = "loop" /\ result' = result
                       ELSE pc' = "raised" /\ result' = f.exc
    /\ UNCHANGED << op, ticker, start_date, end_date, interval, now, venue,
                    history, frame, ticker_info, current_start >>

\* The for loop ends (its range is used up, or the break), and
\* current_start += timedelta(days=1).
NextDay ==
    /\ pc = "loop"
    /\ LoopGuard(current_start, end_date)
    /\ \/ hour >= LastHour
       \/ hour < LastHour /\ BreakGuard(StartTime(current_start, hour), end_date)
    /\ current_start' = PlusSeconds(current_start, 86400)
    /\ hour' = FirstHour
    /\ UNCHANGED << op, ticker, start_date, end_date, interval, now, venue,
                    history, pc, frame, ticker_info, all_data, result, http,
                    bad_left >>

\* The while loop ends and get_candles returns the table.
Return ==
    /\ pc = "loop"
    /\ ~LoopGuard(current_start, end_date)
    /\ pc' = "done"
    /\ result' = DataFrame(all_data)
    /\ UNCHANGED << op, ticker, start_date, end_date, interval, now, venue,
                    history, frame, ticker_info, current_start, hour,
                    all_data, http, bad_left >>

\* What get_last_price does with the value of get_last_candle: the close,
\* or "fallback" when it goes on to get_last_history_candle.
AfterLastCandle(last_candle) ==
    IF HasCandle(last_candle) THEN last_candle.close ELSE Str("fallback")

\* What get_last_price returns after get_last_history_candle.
AfterLastHistoryCandle(last_candle) ==
    IF Truthy(last_candle) THEN last_candle.close ELSE None

\* The request of get_last_candle and its return to the caller.
RequestLastCandle ==
    /\ pc = "request"
    /\ frame = "get_last_candle"
    /\ LET req == CandleRequest(ticker_info, ticker, start_date, end_date, interval)
       IN  \E resp \in Answers(ServerData(venue, req.from, req.till), bad_left) :
             LET r == LastCandle(resp)
             IN  /\ http' = Append(http, Exchange(req, ResponseData(resp, 292), None))
                 /\ bad_left' = IF resp \in BadAnswers(resp.data)
                                THEN bad_left - 1 ELSE bad_left
                 /\ IF IsException(r)
                    THEN pc' = "raised" /\ result' = r /\ frame' = frame
                    ELSE IF op = "get_last_candle"
                    THEN pc' = "done" /\ result' = r /\ frame' = frame
                    ELSE IF AfterLastCandle(r) = Str("fallback")
                    THEN /\ pc' = "resolve"
                         /\ result' = result
                         /\ frame' = "get_last_history_candle"
                    ELSE /\ pc' = "done"
                         /\ result' = AfterLastCandle(r)
                         /\ frame' = "get_last_price"
    /\ UNCHANGED << op, ticker, start_date, end_date, interval, now, venue,
                    history, ticker_info, current_start, hour, all_data >>

\* The request of get_last_history_candle and its return to the caller.
RequestLastHistoryCandle ==
    /\ pc = "request"
    /\ frame = "get_last_history_candle"
    /\ LET req == HistoryRequest(ticker_info, ticker)
       IN  \E resp \in Answers(history, bad_left) :
             LET r == LastHistoryCandle(resp)
             IN  /\ http' = Append(http, Exchange(req, ResponseData(resp, 223), None))
                 /\ bad_left' = IF resp \in BadAnswers(resp.data)
                                THEN bad_left - 1 ELSE bad_left
                 /\ IF IsException(r)
                    THEN pc' = "raised" /\ result' = r /\ frame' = frame
                    ELSE IF op = "get_last_history_candle"
                    THEN pc' = "done" /\ result' = r /\ frame' = frame
                    ELSE /\ pc' = "done"
                         /\ result' = AfterLastHistoryCandle(r)
                         /\ frame' = "get_last_price"
    /\ UNCHANGED << op, ticker, start_date, end_date, interval, now, venue,
                    history, ticker_info, current_start, hour, all_data >>

Next ==
    \/ GetSecurityInfo
    \/ Enter
    \/ Resolve
    \/ Window
    \/ NextDay
    \/ Return
    \/ RequestLastCandle
    \/ RequestLastHistoryCandle

Spec == Init /\ [][Next]_vars

---------------------------------------------------------------------------
(* Vocabulary of the properties *)

\* the data requests of the log, in the order issued
CandleLog == SelectSeq(http, LAMBDA e : e.req.ep = "candles")

HistoryLog == SelectSeq(http, LAMBDA e : e.req.ep = "history")

MetaLog == SelectSeq(http, LAMBDA e : e.req.ep = "securities")

InCandles == op = "get_candles"

\* "HHMMSS" of a begin text: what follows its first blank, colons removed
TimeOfBegin(cs) ==
    LET blank == CHOOSE i \in 1..Len(cs) :
                     cs[i] = " " /\ \A j \in 1..(i - 1) : cs[j] # " "
    IN  SelectSeq(SubSeq(cs, blank + 1, Len(cs)), LAMBDA c : c # ":")

\* The canonical row of one raw bar of the window that starts at st
CanonicalBar(tk, iv, st, bar) ==
    << tk, iv, << st.day >>, Chars(TimeOfBegin(bar[7].chars)),
       bar[1], bar[3], bar[4], bar[2], bar[6] >>

\* The rows of the windows of a log that succeeded, window after window,
\* each window's bars in the order of its response
RECURSIVE TableOf(_)
TableOf(log) ==
    IF log = << >> THEN << >>
    ELSE LET e == Head(log)
             rows == IF e.outcome = "ok"
                     THEN [i \in 1..Len(e.data) |->
                             CanonicalBar(ticker, interval, e.at.start_time, e.data[i])]
                     ELSE << >>
         IN  rows \o TableOf(Tail(log))

\* C1: in get_candles, a window whose request fails (transport error,
\* timeout, non-2xx status) does not end the call, adds no row and removes
\* none: while the loop runs and when the call returns, the rows collected
\* are exactly the canonical rows of the windows that succeeded, in window
\* order and within a window in response order.
C1_FailedWindowsAreSkipped ==
    InCandles =>
      LET log == CandleLog
          table == TableOf(log)
      IN  /\ (log # << >> /\ log[Len(log)].outcome = "failed")
                => pc \in {"loop", "done"}
          /\ pc \in {"loop", "done"} => all_data = table
          /\ pc = "done" => result = DataFrame(table)

\* A call that returned rows of windows before and after a failed window.
C1_Witness ==
    /\ InCandles /\ pc = "done"
    /\ LET log == CandleLog
       IN  \E i, j, k \in 1..Len(log) :
             /\ i < j /\ j < k
             /\ log[i].outcome = "ok" /\ log[i].data # << >>
             /\ log[j].outcome = "failed"
             /\ log[k].outcome = "ok" /\ log[k].data # << >>
    /\ Len(result.rows) = 5

\* the stamps of the requests issued, as a set
RequestedFrom == { CandleLog[i].req.from : i \in 1..Len(CandleLog) }

\* C2: when start_date and end_date lie on the same day, get_candles
\* requests exactly 14 windows, hours 10..23 of that day, each from hh:00:00
\* to hh:59:59 (3599 seconds), in increasing order.
C2_SingleDayHas14Windows ==
    (InCandles /\ pc = "done" /\ start_date.day = end_date.day
       /\ DtLe(start_date, end_date))
      => LET log == CandleLog
         IN  /\ Len(log) = 14
             /\ \A i \in 1..Len(log) :
                  /\ log[i].req.from = << start_date.day, 9 + i, 0, 0 >>
                  /\ log[i].req.till = << start_date.day, 9 + i, 59, 59 >>

\* C3: for start_date <= end_date, get_candles requests the window
\* [day h:00:00, day h:59:59] of every day from start_date's to end_date's
\* and every hour h in 10..23 whose start does not exceed end_date, and no
\* other window.
C3_EveryDayUpToEndIsVisited ==
    (InCandles /\ pc = "done" /\ DtLe(start_date, end_date))
      => RequestedFrom =
           { st \in { << d, h, 0, 0 >> :
                        d \in start_date.day..end_date.day, h \in 10..23 } :
               DtLe(DateTime(st[1], st[2], st[3], st[4], 0), end_date) }

\* C4: get_candles never issues a request for a window whose start is later
\* than end_date.
C4_NoWindowStartsAfterEnd ==
    InCandles =>
      LET log == CandleLog
      IN  \A i \in 1..Len(log) :
            /\ DtLe(log[i].at.start_time, end_date)
            /\ StampSeconds(log[i].req.from) <= Seconds(end_date)

\* A finished call whose last window starts exactly at end_date.
C4_Witness ==
    /\ InCandles /\ pc = "done" /\ CandleLog # << >>
    /\ CandleLog[Len(CandleLog)].at.start_time = end_date
    /\ end_date.hour < 23

InSingle == op \in {"get_last_history_candle", "get_last_candle"}

DataLog == SelectSeq(http, LAMBDA e : e.req.ep \in {"candles", "history"})

\* C5 as stated: in get_last_history_candle and get_last_candle a failed
\* data request (transport failure, timeout, non-2xx status) reaches the
\* caller as an error, unlike the absent outcome of an empty result set.
C5_DataFailureIsAnError ==
    (InSingle /\ DataLog # << >> /\ DataLog[1].outcome = "failed")
      => pc = "raised"

\* C5 as amended: a failed metadata request is raised to the caller
\* (RuntimeError) before any data request; a failed data request is caught
\* and the call returns None, the value it also returns for an empty result
\* set.
C5_DataFailureReturnsNone ==
    InSingle =>
      /\ (MetaLog # << >> /\ MetaLog[1].outcome = "failed")
            => pc = "raised" /\ result = Raise("RuntimeError", 33) /\ DataLog = << >>
      /\ (DataLog # << >> /\ DataLog[1].outcome = "failed")
            => pc = "done" /\ result = None
      /\ (DataLog # << >> /\ DataLog[1].outcome = "ok" /\ DataLog[1].data = << >>)
            => pc = "done" /\ result = None

\* get_last_candle returned None after its data request failed.
C5_Witness ==
    /\ op = "get_last_candle" /\ pc = "done" /\ result = None
    /\ DataLog # << >> /\ DataLog[1].outcome = "failed"

\* the intraday lookup of a get_last_price call found a bar
IntradayPresent == CandleLog[1].outcome = "ok" /\ CandleLog[1].data # << >>

HistoryPresent == HistoryLog[1].outcome = "ok" /\ HistoryLog[1].data # << >>

\* C6: get_last_price first asks for the candles of [now - 15 min, now] at
\* interval 1; a bar there gives the result, its close, and the history
\* endpoint is not queried; only without one is the history endpoint asked,
\* once, and its row's close returned; the result is None exactly when
\* both lookups found nothing.
C6_IntradayThenHistory ==
    op = "get_last_price" =>
      /\ Len(CandleLog) <= 1 /\ Len(HistoryLog) <= 1
      /\ CandleLog # << >> =>
           /\ StampSeconds(CandleLog[1].req.from) = Seconds(now) - 900
           /\ StampSeconds(CandleLog[1].req.till) = Seconds(now)
           /\ CandleLog[1].req.interval = 1
      /\ HistoryLog # << >> =>
           /\ CandleLog # << >> /\ ~IntradayPresent
           /\ http[Len(http)].req.ep = "history"
      /\ pc = "done" =>
           /\ CandleLog # << >>
           /\ IF IntradayPresent
              THEN /\ HistoryLog = << >>
                   /\ result = [t |-> "float",
                                v |-> CandleLog[1].data[Len(CandleLog[1].data)][2]]
              ELSE /\ HistoryLog # << >>
                   /\ IF HistoryPresent
                      THEN result = [t |-> "float", v |-> HistoryLog[1].data[1][12]]
                      ELSE result = None
           /\ result = None <=> (~IntradayPresent /\ ~HistoryPresent)

\* A call that found no intraday bar and returned the history row's close.
C6_Witness ==
    /\ op = "get_last_price" /\ pc = "done"
    /\ HistoryLog # << >> /\ HistoryPresent
    /\ result = [t |-> "float", v |-> 7235]

\* C7: in get_candles a window whose body has an unexpected shape, or holds
\* a bar with fewer than 7 fields or a begin that is not a string, does not
\* end the call: once a window was requested the call never ends with the
\* IndexError or AttributeError of such a body.  (A body that is not JSON,
\* which the claim names too, is left out here: requests 2.27 and later
\* raise a RequestException for it, which the loop does catch.)
C7_FormatErrorsAreSkipped ==
    (InCandles /\ CandleLog # << >>)
      => ~(pc = "raised" /\ result.type \in {"IndexError", "AttributeError"})

\* C8 as stated: get_security_info raises the invalid-argument error for
\* every ticker that is not a non-empty string.
C8_EmptyTickerRejected ==
    (op = "get_security_info" /\ pc # "call"
       /\ (~IsStr(ticker) \/ ticker = Str("")))
      => pc = "raised" /\ result = Raise("ValueError", 23)

\* C8 as amended: get_security_info raises the invalid-argument error,
\* before any request, for every ticker that is not a string; for a string,
\* the empty one included, it issues its request and never raises that
\* error.
C8_NonStringTickerRejected ==
    (op = "get_security_info" /\ pc # "call") =>
      IF IsStr(ticker)
      THEN Len(http) = 1 /\ result # Raise("ValueError", 23)
      ELSE pc = "raised" /\ result = Raise("ValueError", 23) /\ http = << >>

\* get_security_info refused a ticker that is not a string.
C8_Witness ==
    /\ op = "get_security_info" /\ pc = "raised" /\ ~IsStr(ticker)
    /\ result = Raise("ValueError", 23) /\ http = << >>

\* C9: one get_candles call issues the metadata request first and once;
\* only after it succeeded, the candles requests, which are the planned
\* windows in order from the first on, none twice; a call that returns has
\* requested every planned window once; a failed resolution is followed by
\* no request.
C9_RequestsInPlanOrder ==
    InCandles =>
      LET plan == DayLoop(start_date, end_date)
          log == CandleLog
      IN  /\ http # << >> => http[1].req.ep = "securities"
          /\ Len(MetaLog) <= 1
          /\ ticker_info = None => log = << >>
          /\ Len(log) <= Len(plan)
          /\ [i \in 1..Len(log) |-> log[i].at] = SubSeq(plan, 1, Len(log))
          /\ [i \in 1..Len(log) |-> << log[i].req.from, log[i].req.till >>]
               = [i \in 1..Len(log) |-> << Strftime(plan[i].start_time),
                                           Strftime(plan[i].end_time) >>]
          /\ Cardinality({ log[i].req : i \in 1..Len(log) }) = Len(log)
          /\ pc = "done" => Len(log) = Len(plan)

\* A call that returned after a window failed and later windows were
\* requested.
C9_Witness ==
    /\ InCandles /\ pc = "done" /\ Len(CandleLog) > 14
    /\ LET log == CandleLog
       IN  \E i \in 1..(Len(log) - 1) : log[i].outcome = "failed"

\* C10: the windows one get_candles call requests each lie within one day
\* at an hour in 10..23, end 3599 seconds after they start, and each ends
\* strictly before the next one starts, across days too.
C10_WindowsDisjointIncreasing ==
    InCandles =>
      LET log == CandleLog
      IN  \A i \in 1..Len(log) :
            LET w == log[i].at
            IN  /\ w.start_time.hour \in 10..23
                /\ w.start_time.minute = 0 /\ w.start_time.second = 0
                /\ w.end_time.day = w.start_time.day
                /\ Seconds(w.end_time) - Seconds(w.start_time) = 3599
                /\ w.end_time.microsecond = w.start_time.microsecond
                /\ StampSeconds(log[i].req.till)
                     - StampSeconds(log[i].req.from) = 3599
                /\ i < Len(log) =>
                     /\ DtGt(log[i + 1].at.start_time, w.end_time)
                     /\ StampSeconds(log[i + 1].req.from)
                          > StampSeconds(log[i].req.till)

\* A call that requested the last window of one day and the first of the
\* next.
C10_Witness ==
    /\ InCandles /\ pc = "done"
    /\ LET log == CandleLog
       IN  \E i \in 1..(Len(log) - 1) :
             /\ log[i].at.start_time.hour = 23
             /\ log[i + 1].at.start_time.day = log[i].at.start_time.day + 1

===========================================================================
